---- MODULE Spec2Model ----
(***************************************************************************)
(* A model of the KallistiOS ramdisk file system, kernel/fs/fs_ramdisk.c:  *)
(* the node store, the path resolver, the handle table fh[], the VFS       *)
(* operations (each one runs under rd_mutex, taken by mutex_lock_scoped at *)
(* its entry) and the attach/detach bridge, whose stores to the node       *)
(* happen between two VFS calls, outside the mutex.                        *)
(*                                                                         *)
(* Pointers are small naturals, NULL is 0.  A file's data block is a       *)
(* record [alloc, bytes]: the size of the allocation and the initialised   *)
(* prefix of its contents, run-length encoded (a run <<n, b>> is n bytes   *)
(* of value b); bytes past the prefix are uninitialised heap.              *)
(***************************************************************************)
EXTENDS Integers, Sequences, FiniteSets, TLC

\* ------------------------------------------------------------------ bounds
\* Threads calling into the file system.
NumThreads == 2
\* rd_file_t nodes the heap can hold besides the root: malloc fails beyond.
MaxFiles == 2
\* Size of the handle table fh[] (FS_RAMDISK_MAX_FILES, set in kos/opts.h).
FS_RAMDISK_MAX_FILES == 3
\* Writes that would move a cursor past this offset are not issued.
MaxFileSize == 1025

\* --------------------------------------------------------- program constants
NULL == 0
OPENFOR_NOTHING == 0
OPENFOR_READ == 1
OPENFOR_WRITE == 2
\* malloc(1024) of a new or truncated file
INIT_DATASIZE == 1024
\* realloc slack of ramdisk_write
REALLOC_SLACK == 4096
\* malloc(64) of fs_ramdisk_detach
DETACH_DATASIZE == 64
\* the largest value of the upper half of uint32 (fh[].ptr) and size_t
INT32_MAX == 2147483647

STAT_TYPE_FILE == "file"
STAT_TYPE_DIR == "dir"
SEEK_SET == "SEEK_SET"
SEEK_CUR == "SEEK_CUR"
SEEK_END == "SEEK_END"

\* An open mode is the set of its flag bits; O_RDONLY is the absence of
\* O_WRONLY and O_RDWR.
O_MODE_MASK == {"O_WRONLY", "O_RDWR"}
O_RDONLY == {}

\* ------------------------------------------------------------------ inputs
Threads == 1..NumThreads
ROOT == 1
FileIds == 2..(MaxFiles + 1)
NodeIds == {ROOT} \cup FileIds
Handles == 0..FS_RAMDISK_MAX_FILES
Slots == 0..(FS_RAMDISK_MAX_FILES - 1)

\* An uninitialised byte.
GARBAGE == 0 - 1

\* ------------------------------------------------------- run-length strings
RECURSIVE RLen(_)
RLen(r) == IF r = <<>> THEN 0 ELSE r[1][1] + RLen(Tail(r))

\* Concatenation, merging equal neighbours so that equal byte strings are
\* equal values.
RECURSIVE RCat(_, _)
RCat(r, s) ==
    IF s = <<>> THEN r
    ELSE IF s[1][1] = 0 THEN RCat(r, Tail(s))
    ELSE IF r # <<>> /\ r[Len(r)][2] = s[1][2]
         THEN RCat([r EXCEPT ![Len(r)] = <<r[Len(r)][1] + s[1][1], s[1][2]>>],
                   Tail(s))
    ELSE RCat(Append(r, s[1]), Tail(s))

\* The first n bytes of r (all of r when it is shorter).
RECURSIVE RTake(_, _)
RTake(r, n) ==
    IF n <= 0 \/ r = <<>> THEN <<>>
    ELSE IF r[1][1] <= n THEN <<r[1]>> \o RTake(Tail(r), n - r[1][1])
    ELSE << <<n, r[1][2]>> >>

\* r without its first n bytes.
RECURSIVE RDrop(_, _)
RDrop(r, n) ==
    IF n <= 0 \/ r = <<>> THEN r
    ELSE IF r[1][1] <= n THEN RDrop(Tail(r), n - r[1][1])
    ELSE << <<r[1][1] - n, r[1][2]>> >> \o Tail(r)

\* r extended with uninitialised bytes to length n.
RPad(r, n) == IF RLen(r) < n THEN RCat(r, << <<n - RLen(r), GARBAGE>> >>) ELSE r

\* The n bytes at offset off of a block whose initialised prefix is r.
RSlice(r, off, n) == RPad(RTake(RDrop(r, off), n), n)

\* n bytes of value 7.
Bytes7(n) == << <<n, 7>> >>

\* ------------------------------------------------------------ libc helpers
tolower(c) == IF c = "A" THEN "a" ELSE c

\* strncasecmp(a, b, n) == 0 for strings of length n
strncasecmp_eq(a, b) ==
    /\ Len(a) = Len(b)
    /\ \A i \in 1..Len(a) : tolower(a[i]) = tolower(b[i])

\* Index of the first (strchr) and last (strrchr) '/' of s, 0 when none.
strchr_slash(s) ==
    IF \E i \in 1..Len(s) : s[i] = "/"
    THEN CHOOSE i \in 1..Len(s) : s[i] = "/" /\ \A j \in 1..(i - 1) : s[j] # "/"
    ELSE 0
strrchr_slash(s) ==
    IF \E i \in 1..Len(s) : s[i] = "/"
    THEN CHOOSE i \in 1..Len(s) : s[i] = "/" /\ \A j \in (i + 1)..Len(s) : s[j] # "/"
    ELSE 0

\* memcpy(dst + off, src, n): the block after the copy.
memcpy_to(blk, off, src) ==
    LET n == RLen(src)
    IN  IF n = 0 THEN blk
        ELSE [blk EXCEPT !.bytes =
                 RCat(RCat(RPad(RTake(blk.bytes, off), off), src),
                      RDrop(blk.bytes, off + n))]

\* A block carries the identity of the buffer it is: HEAP for the blocks the
\* file system allocates itself, a positive number for a caller's buffer.
HEAP == 0

\* realloc(blk, n): the contents up to the smaller of the two sizes are kept,
\* in a block of the file system's.
realloc_Lost(blk, n) == [alloc |-> n, bytes |-> <<>>, id |-> HEAP]
realloc(blk, n) == [alloc |-> n, bytes |-> RTake(blk.bytes, n), id |-> HEAP]

\* malloc(n): a block of n uninitialised bytes.
malloc(n) == [alloc |-> n, bytes |-> <<>>, id |-> HEAP]

\* A caller's buffer b holding n bytes of value 7.
Buffer(b, n) == [alloc |-> n, bytes |-> Bytes7(n), id |-> b]

\* ------------------------------------------------------------------- state
VARIABLES
    file,      \* the heap of rd_file_t nodes: NodeIds -> node (type "free": unallocated)
    fh,        \* the handle table
    rd_mutex,  \* the thread holding rd_mutex, or NULL
    pc,        \* where each thread is: "idle", or inside attach / detach
    loc,       \* the locals of each thread's attach / detach call
    fault,     \* a memcpy ran past the end of its block, or a freed node was read
    rootdir,   \* the root's child list, NULL before fs_ramdisk_init
    registered \* how many times vh is on the VFS's list of handlers

vars == <<file, fh, rd_mutex, pc, loc, fault, rootdir, registered>>

\* What only fs_ramdisk_init writes.
boot == <<rootdir, registered>>

\* An unallocated node slot.
FreeNode ==
    [name |-> <<>>, size |-> 0, type |-> "free", openfor |-> OPENFOR_NOTHING,
     usage |-> 0, data |-> <<>>, datasize |-> 0]

\* A handle slot as memset(fh, 0, sizeof(fh)) leaves it.
NoDirent == [name |-> <<>>, attr |-> {}, size |-> 0]
ZeroHandle ==
    [file |-> NULL, dir |-> FALSE, ptr |-> 0, omode |-> {}, dirent |-> NoDirent]

\* LIST_FIRST / LIST_NEXT / LIST_INSERT_HEAD / LIST_REMOVE on a directory's
\* child list, a sequence of node pointers, head first.
LIST_FIRST(list) == IF list = <<>> THEN NULL ELSE list[1]
LIST_NEXT_Stay(list, f) == f
LIST_NEXT(list, f) ==
    IF \E i \in 1..(Len(list) - 1) : list[i] = f
    THEN list[(CHOOSE i \in 1..(Len(list) - 1) : list[i] = f) + 1]
    ELSE NULL
LIST_INSERT_HEAD(list, f) == <<f>> \o list
LIST_REMOVE(list, f) == SelectSeq(list, LAMBDA x : x # f)

\* ----------------------------------------------------------- path resolver
\* Search directory node parent for the named file.
ramdisk_find_CaseSensitive(fl, parent, name) ==
    LET list == fl[parent].data
        hits == {i \in 1..Len(list) : name = fl[list[i]].name}
    IN  IF hits = {} THEN NULL
        ELSE list[CHOOSE i \in hits : \A j \in hits : i <= j]
ramdisk_find(fl, parent, name) ==
    LET list == fl[parent].data
        hits == {i \in 1..Len(list) : strncasecmp_eq(name, fl[list[i]].name)}
    IN  IF hits = {} THEN NULL
        ELSE list[CHOOSE i \in hits : \A j \in hits : i <= j]

\* The loop and the tail of ramdisk_find_path; f is the node found so far.
RECURSIVE find_path_from(_, _, _, _, _)
find_path_from(fl, parent, fn, dir, f) ==
    LET cur == strchr_slash(fn)
    IN  IF cur # 0
        THEN IF cur # 1
             THEN LET g == ramdisk_find(fl, parent, SubSeq(fn, 1, cur - 1))
                  IN  IF g = NULL \/ fl[g].type # STAT_TYPE_DIR THEN NULL
                      ELSE find_path_from(fl, g, SubSeq(fn, cur + 1, Len(fn)), dir, g)
             ELSE find_path_from(fl, parent, SubSeq(fn, cur + 1, Len(fn)), dir, f)
        ELSE IF fn # <<>>
             THEN LET g == ramdisk_find(fl, parent, fn)
                  IN  IF \/ g = NULL
                         \/ (~dir /\ fl[g].type = STAT_TYPE_DIR)
                         \/ (dir /\ fl[g].type # STAT_TYPE_DIR)
                      THEN NULL ELSE g
             ELSE IF ~dir THEN NULL ELSE f

ramdisk_find_path(fl, parent, fn, dir) == find_path_from(fl, parent, fn, dir, NULL)

\* The parent directory and the file name of a path: [rc, dout, fnout].
ramdisk_get_parent(fl, parent, fn) ==
    LET p == strrchr_slash(fn)
    IN  IF p = 0 THEN [rc |-> 0, dout |-> parent, fnout |-> fn]
        ELSE LET f == ramdisk_find_path(fl, parent, SubSeq(fn, 1, p - 1), TRUE)
             IN  IF f = NULL THEN [rc |-> -1, dout |-> NULL, fnout |-> <<>>]
                 ELSE [rc |-> 0, dout |-> f, fnout |-> SubSeq(fn, p + 1, Len(fn))]

\* The fields ramdisk_create_file gives a new node.
NewNode(name, dir) ==
    [name |-> name, size |-> 0,
     type |-> IF dir THEN STAT_TYPE_DIR ELSE STAT_TYPE_FILE,
     openfor |-> OPENFOR_NOTHING, usage |-> 0,
     data |-> IF dir THEN <<>> ELSE malloc(INIT_DATASIZE),
     datasize |-> IF dir THEN 0 ELSE INIT_DATASIZE]

\* Create a path-named file; m is what malloc returns for the node (NULL when
\* an allocation fails).  Result: [file, f].
ramdisk_create_file(fl, parent, fn, dir, m) ==
    LET gp == ramdisk_get_parent(fl, parent, fn)
    IN  IF gp.rc < 0 \/ m = NULL THEN [file |-> fl, f |-> NULL]
        ELSE [file |-> [fl EXCEPT ![m] = NewNode(gp.fnout, dir),
                                  ![gp.dout].data = LIST_INSERT_HEAD(@, m)],
              f |-> m]

\* ------------------------------------------------------------ VFS operations
\* Each operation is a function of the shared state st = [file, fh] and its
\* arguments, giving the state it leaves and its return value rv.

\* The free handle ramdisk_open's scan from 1 finds (FS_RAMDISK_MAX_FILES: none).
FindFreeHandle_Highest(h) ==
    IF \E fd \in 1..(FS_RAMDISK_MAX_FILES - 1) : h[fd].file = NULL
    THEN CHOOSE fd \in 1..(FS_RAMDISK_MAX_FILES - 1) :
             /\ h[fd].file = NULL
             /\ \A g \in (fd + 1)..(FS_RAMDISK_MAX_FILES - 1) : h[g].file # NULL
    ELSE FS_RAMDISK_MAX_FILES
FindFreeHandle(h) ==
    IF \E fd \in 1..(FS_RAMDISK_MAX_FILES - 1) : h[fd].file = NULL
    THEN CHOOSE fd \in 1..(FS_RAMDISK_MAX_FILES - 1) :
             /\ h[fd].file = NULL
             /\ \A g \in 1..(fd - 1) : h[g].file # NULL
    ELSE FS_RAMDISK_MAX_FILES

\* The handle's cursor and the node's block after the mode-specific part of
\* ramdisk_open for a writable mode.
OpenForWrite(node, mode) ==
    IF "O_APPEND" \in mode
    THEN [node |-> [node EXCEPT !.openfor = OPENFOR_WRITE], ptr |-> node.size]
    ELSE IF "O_TRUNC" \in mode
    THEN [node |-> [node EXCEPT !.openfor = OPENFOR_WRITE,
                                !.data = malloc(INIT_DATASIZE),
                                !.datasize = INIT_DATASIZE,
                                !.size = 0],
          ptr |-> 0]
    ELSE [node |-> [node EXCEPT !.openfor = OPENFOR_WRITE], ptr |-> 0]

\* if(f->openfor == OPENFOR_WRITE) goto error_out;
AlreadyWriting_Never(node) == FALSE
AlreadyWriting(node) == node.openfor = OPENFOR_WRITE

\* In a writable mode: if(f->openfor == OPENFOR_READ) goto error_out;
ReadersBlockWrite_Never(node) == FALSE
ReadersBlockWrite(node) == node.openfor = OPENFOR_READ

\* ramdisk_open from the exclusion check on: f is the node, fd the free
\* handle, fl the node heap after a possible creation.
OpenCommit(fl, h, f, fd, mode) ==
    LET mm == mode \cap O_MODE_MASK
        dir == "O_DIR" \in mode
        h1 == [h EXCEPT ![fd].file = f, ![fd].dir = dir, ![fd].omode = mode]
        error_out == [file |-> fl, fh |-> [h1 EXCEPT ![fd].file = NULL], rv |-> NULL]
    IN  IF AlreadyWriting(fl[f])
        THEN [file |-> fl, fh |-> [h EXCEPT ![fd].file = NULL], rv |-> NULL]
        ELSE IF mm = O_RDONLY
        THEN LET ptr == IF dir THEN LIST_FIRST(fl[f].data) ELSE 0
             IN  [file |-> [fl EXCEPT ![f].openfor = OPENFOR_READ,
                                      ![f].usage = @ + 1],
                  fh |-> [h1 EXCEPT ![fd].ptr = ptr],
                  rv |-> fd]
        ELSE IF ReadersBlockWrite(fl[f]) THEN error_out
        ELSE LET w == OpenForWrite(fl[f], mode)
                 ptr == IF dir THEN LIST_FIRST(w.node.data) ELSE w.ptr
             IN  [file |-> [fl EXCEPT ![f] = [w.node EXCEPT !.usage = @ + 1]],
                  fh |-> [h1 EXCEPT ![fd].ptr = ptr],
                  rv |-> fd]

\* if(fn[0] == '/') fn++;
SkipSlash(fn0) == IF fn0 # <<>> /\ fn0[1] = "/" THEN Tail(fn0) ELSE fn0

\* The node ramdisk_open looks up: the root for the empty path.
OpenLookup(fl, fn0, mode) ==
    IF SkipSlash(fn0) = <<>> THEN ROOT
    ELSE ramdisk_find_path(fl, ROOT, SkipSlash(fn0), "O_DIR" \in mode)

\* Open a file or directory.  m: what malloc returns should a node be created.
ramdisk_open(s, fn0, mode, m) ==
    LET fn == SkipSlash(fn0)
        mm == mode \cap O_MODE_MASK
        dir == "O_DIR" \in mode
        fail == [file |-> s.file, fh |-> s.fh, rv |-> NULL]
        found == OpenLookup(s.file, fn0, mode)
        cr == IF found = NULL /\ mm # O_RDONLY /\ ~dir
              THEN ramdisk_create_file(s.file, ROOT, fn, dir, m)
              ELSE [file |-> s.file, f |-> found]
        fd == FindFreeHandle(s.fh)
    IN  IF dir /\ mm # O_RDONLY THEN fail
        ELSE IF cr.f = NULL THEN fail
        ELSE IF cr.file[cr.f].type = STAT_TYPE_DIR /\ (~dir \/ mm # O_RDONLY)
        THEN [fail EXCEPT !.file = cr.file]
        ELSE IF fd >= FS_RAMDISK_MAX_FILES
        THEN [fail EXCEPT !.file = cr.file]
        ELSE OpenCommit(cr.file, s.fh, cr.f, fd, mode)

\* f->usage--;
UsageAfterClose_Kept(node) == node.usage
UsageAfterClose(node) == node.usage - 1

\* if(f->usage == 0) f->openfor = OPENFOR_NOTHING;
OpenforAfterClose_Kept(node, usage) == node.openfor
OpenforAfterClose(node, usage) ==
    IF usage = 0 THEN OPENFOR_NOTHING ELSE node.openfor

\* Close a file or directory.
ramdisk_close_Nothing(s, fd) == [file |-> s.file, fh |-> s.fh, rv |-> 0]
ramdisk_close_KeepSlot(s, fd) ==
    IF fd < FS_RAMDISK_MAX_FILES /\ s.fh[fd].file # NULL
    THEN [file |-> [s.file EXCEPT ![s.fh[fd].file].usage = @ - 1],
          fh |-> s.fh, rv |-> 0]
    ELSE [file |-> s.file, fh |-> s.fh, rv |-> 0]
ramdisk_close(s, fd) ==
    IF fd < FS_RAMDISK_MAX_FILES /\ s.fh[fd].file # NULL
    THEN LET f == s.fh[fd].file
             usage == UsageAfterClose(s.file[f])
         IN  [file |-> [s.file EXCEPT
                           ![f].usage = usage,
                           ![f].openfor = OpenforAfterClose(s.file[f], usage)],
              fh |-> [s.fh EXCEPT ![fd].file = NULL],
              rv |-> 0]
    ELSE [file |-> s.file, fh |-> s.fh, rv |-> 0]

\* uint32 and size_t arithmetic.  A 32-bit unsigned value is written as the
\* integer of -2^31 .. 2^31-1 congruent to it modulo 2^32: a negative number
\* stands for the value 2^32 larger.
Add32(a, b) ==
    IF a >= 0 /\ b >= 0 /\ a > INT32_MAX - b
    THEN (a - INT32_MAX - 1) + (b - INT32_MAX - 1)
    ELSE IF a < 0 /\ b < 0 /\ a < (-INT32_MAX - 1) - b
    THEN (a + INT32_MAX + 1) + (b + INT32_MAX + 1)
    ELSE a + b
Sub32(a, b) ==
    IF a >= 0 /\ b < 0 /\ a > INT32_MAX + b
    THEN (a - INT32_MAX - 1) - (b + INT32_MAX + 1)
    ELSE IF a < 0 /\ b >= 0 /\ a < (-INT32_MAX - 1) + b
    THEN ((a + INT32_MAX + 1) - b) + INT32_MAX + 1
    ELSE a - b

\* a > b as unsigned values.
Above32(a, b) == IF (a < 0) = (b < 0) THEN a > b ELSE a < 0

\* Is there enough left?  if((fh[fd].ptr + bytes) > fh[fd].file->size)
NotEnoughLeft(ptr, bytes, size) == Above32(Add32(ptr, bytes), size)

\* Read from a file.  bytes and the cursor are uint32.  rv: the count as the
\* ssize_t returned; buf: the bytes copied out; oob: the memcpy read past
\* the end of the data block.
ramdisk_read(s, fd, bytes0) ==
    IF fd < FS_RAMDISK_MAX_FILES /\ s.fh[fd].file # NULL /\ ~s.fh[fd].dir
    THEN LET f == s.fh[fd].file
             ptr == s.fh[fd].ptr
             bytes == IF NotEnoughLeft(ptr, bytes0, s.file[f].size)
                      THEN Sub32(s.file[f].size, ptr) ELSE bytes0
             oob == /\ bytes # 0
                    /\ \/ bytes < 0 \/ ptr < 0
                       \/ bytes > s.file[f].data.alloc - ptr
         IN  [file |-> s.file,
              fh |-> [s.fh EXCEPT ![fd].ptr = Add32(ptr, bytes)],
              rv |-> bytes,
              buf |-> IF oob THEN <<>> ELSE RSlice(s.file[f].data.bytes, ptr, bytes),
              oob |-> oob]
    ELSE [file |-> s.file, fh |-> s.fh, rv |-> -1, buf |-> <<>>, oob |-> FALSE]

\* ... && fh[fd].file->openfor == OPENFOR_WRITE
WriteAllowed_Always(node) == TRUE
WriteAllowed(node) == node.openfor = OPENFOR_WRITE

\* Write to a file.  np_ok: realloc, when called, succeeds.
ramdisk_write(s, fd, buf, np_ok) ==
    LET bytes == RLen(buf)
        unchanged == [file |-> s.file, fh |-> s.fh, rv |-> -1, oob |-> FALSE]
    IN  IF /\ fd < FS_RAMDISK_MAX_FILES
           /\ s.fh[fd].file # NULL
           /\ ~s.fh[fd].dir
           /\ WriteAllowed(s.file[s.fh[fd].file])
        THEN LET f == s.fh[fd].file
                 ptr == s.fh[fd].ptr
                 grow == ptr + bytes > s.file[f].datasize
                 n1 == IF grow
                       THEN [s.file[f] EXCEPT
                                !.data = realloc(@, ptr + bytes + REALLOC_SLACK),
                                !.datasize = ptr + bytes + REALLOC_SLACK]
                       ELSE s.file[f]
                 n2 == [n1 EXCEPT !.data = memcpy_to(@, ptr, buf),
                                  !.size = IF @ < ptr + bytes THEN ptr + bytes ELSE @]
             IN  IF grow /\ ~np_ok THEN unchanged
                 ELSE [file |-> [s.file EXCEPT ![f] = n2],
                       fh |-> [s.fh EXCEPT ![fd].ptr = ptr + bytes],
                       rv |-> bytes,
                       oob |-> bytes > 0 /\ ptr + bytes > n1.data.alloc]
        ELSE unchanged

\* The cursor ramdisk_seek computes before clamping, or -1 for EINVAL.  The
\* cursor is a uint32: a negative offset no larger than the base moves back.
SeekTarget(ptr, size, offset, whence) ==
    CASE whence = SEEK_SET -> IF offset < 0 THEN -1 ELSE offset
      [] whence = SEEK_CUR -> IF offset < 0 /\ -offset > ptr THEN -1 ELSE ptr + offset
      [] whence = SEEK_END -> IF offset < 0 /\ -offset > size THEN -1 ELSE size + offset
      [] OTHER -> -1

\* Check bounds: if(fh[fd].ptr > fh[fd].file->size) fh[fd].ptr = fh[fd].file->size;
SeekClamp_Off(t, size) == t
SeekClamp(t, size) == IF t > size THEN size ELSE t

\* Seek elsewhere in a file.
ramdisk_seek(s, fd, offset, whence) ==
    IF fd >= FS_RAMDISK_MAX_FILES \/ s.fh[fd].file = NULL \/ s.fh[fd].dir
    THEN [file |-> s.file, fh |-> s.fh, rv |-> -1]
    ELSE LET size == s.file[s.fh[fd].file].size
             t == SeekTarget(s.fh[fd].ptr, size, offset, whence)
             ptr == SeekClamp(t, size)
         IN  IF t < 0 THEN [file |-> s.file, fh |-> s.fh, rv |-> -1]
             ELSE [file |-> s.file, fh |-> [s.fh EXCEPT ![fd].ptr = ptr], rv |-> ptr]

\* The directory node whose child list holds f.
ParentOf(fl, f) ==
    CHOOSE d \in NodeIds :
        /\ fl[d].type = STAT_TYPE_DIR
        /\ \E i \in 1..Len(fl[d].data) : fl[d].data[i] = f

\* Make sure it's not in use: if(f->usage == 0)
NotInUse_Always(node) == TRUE
NotInUse(node) == node.usage = 0

\* Remove a file.
ramdisk_unlink(s, fn) ==
    LET f == ramdisk_find_path(s.file, ROOT, fn, FALSE)
    IN  IF f # NULL /\ NotInUse(s.file[f])
        THEN [file |-> [s.file EXCEPT
                           ![ParentOf(s.file, f)].data = LIST_REMOVE(@, f),
                           ![f] = FreeNode],
              fh |-> s.fh, rv |-> 0]
        ELSE [file |-> s.file, fh |-> s.fh, rv |-> -1]

\* Map a file: the pointer to its data block (ok), or NULL.
ramdisk_mmap(s, fd) ==
    IF fd < FS_RAMDISK_MAX_FILES /\ s.fh[fd].file # NULL /\ ~s.fh[fd].dir
    THEN [file |-> s.file, fh |-> s.fh, ok |-> TRUE,
          blk |-> s.file[s.fh[fd].file].data]
    ELSE [file |-> s.file, fh |-> s.fh, ok |-> FALSE, blk |-> malloc(0)]

\* Read a directory entry.  rv: the handle whose dirent is returned, or NULL;
\* node: the child the entry describes; uaf: the cursor pointed at a node
\* that has been freed, and readdir read it.
ramdisk_readdir(s, fd) ==
    LET none == [file |-> s.file, fh |-> s.fh, rv |-> NULL, node |-> NULL,
                 uaf |-> FALSE]
    IN  IF /\ fd < FS_RAMDISK_MAX_FILES
           /\ s.fh[fd].file # NULL
           /\ s.fh[fd].ptr # 0
           /\ s.fh[fd].dir
        THEN LET f == s.fh[fd].ptr
             IN  IF s.file[f].type = "free" THEN [none EXCEPT !.uaf = TRUE]
                 ELSE [file |-> s.file,
                       fh |-> [s.fh EXCEPT
                           ![fd].ptr = LIST_NEXT(s.file[ParentOf(s.file, f)].data, f),
                           ![fd].dirent =
                               IF s.file[f].type = STAT_TYPE_DIR
                               THEN [name |-> s.file[f].name, attr |-> {"O_DIR"},
                                     size |-> -1]
                               ELSE [name |-> s.file[f].name, attr |-> {},
                                     size |-> s.file[f].size]],
                       rv |-> fd, node |-> f, uaf |-> FALSE]
        ELSE none

\* Rewind a directory handle to the first child.
ramdisk_rewinddir(s, fd) ==
    IF fd >= FS_RAMDISK_MAX_FILES \/ s.fh[fd].file = NULL \/ ~s.fh[fd].dir
    THEN [file |-> s.file, fh |-> s.fh, rv |-> -1]
    ELSE [file |-> s.file,
          fh |-> [s.fh EXCEPT ![fd].ptr = LIST_FIRST(s.file[s.fh[fd].file].data)],
          rv |-> 0]

\* The bits of st_mode: a mode is the set of its bits.
S_IRWUGO == {"S_IRUSR", "S_IWUSR", "S_IRGRP", "S_IWGRP", "S_IROTH", "S_IWOTH"}
S_IXUGO == {"S_IXUSR", "S_IXGRP", "S_IXOTH"}
S_IFDIR == {"S_IFDIR"}
S_IFREG == {"S_IFREG"}

\* A struct stat after memset(st, 0, sizeof(struct stat)), and the rv of a
\* call that fails before it writes one.
NoStat == [rv |-> -1, st_mode |-> {}, st_size |-> 0, st_nlink |-> 0,
           st_blksize |-> 0, st_blocks |-> 0]

\* st_blocks = f->datasize >> 10; if(f->datasize & 0x3ff) ++st->st_blocks;
StatBlocks(datasize) ==
    (datasize \div 1024) + (IF datasize % 1024 # 0 THEN 1 ELSE 0)

\* What ramdisk_stat and ramdisk_fstat fill in alike for node f.
StatCommon(node) ==
    [rv |-> 0, st_mode |-> S_IRWUGO,
     st_size |-> IF node.type = STAT_TYPE_DIR THEN -1 ELSE node.datasize,
     st_nlink |-> IF node.type = STAT_TYPE_DIR THEN 2 ELSE 1,
     st_blksize |-> 1024,
     st_blocks |-> StatBlocks(node.datasize)]

\* Get the status of a path: rv and the fields of *st.
ramdisk_stat(s, path) ==
    IF path = <<>> \/ path = <<"/">>
    THEN [NoStat EXCEPT !.rv = 0, !.st_mode = S_IFDIR \cup S_IRWUGO \cup S_IXUGO,
                        !.st_size = -1, !.st_nlink = 2]
    ELSE LET f == ramdisk_find_path(s.file, ROOT, path, FALSE)
         IN  IF f = NULL THEN NoStat
             ELSE [StatCommon(s.file[f]) EXCEPT !.st_mode =
                      @ \cup (IF s.file[f].type = STAT_TYPE_DIR
                              THEN S_IFDIR \cup S_IXUGO ELSE S_IFREG)]

\* Get the status of an open handle.
ramdisk_fstat(s, fd) ==
    IF fd >= FS_RAMDISK_MAX_FILES \/ s.fh[fd].file = NULL THEN NoStat
    ELSE LET f == s.fh[fd].file
         IN  [StatCommon(s.file[f]) EXCEPT !.st_mode =
                 @ \cup (IF s.file[f].type = STAT_TYPE_DIR THEN S_IFDIR ELSE S_IFREG)]

\* ------------------------------------------------------------- life cycle
\* The node fs_ramdisk_init makes the root.
RootNode ==
    [name |-> <<"/">>, size |-> 0, type |-> STAT_TYPE_DIR,
     openfor |-> OPENFOR_NOTHING, usage |-> 0, data |-> <<>>, datasize |-> 0]

\* The statics before fs_ramdisk_init has run.
Blank ==
    [file |-> [n \in NodeIds |-> FreeNode], fh |-> [fd \in Slots |-> ZeroHandle],
     rootdir |-> NULL, registered |-> 0]

\* Test if initted: if(rootdir != NULL) return;
Initted_Never(b) == FALSE
Initted(b) == b.rootdir # NULL

\* Initialize the file system (its allocations succeed).
fs_ramdisk_init(b) ==
    IF Initted(b) THEN b
    ELSE [file |-> [b.file EXCEPT ![ROOT] = RootNode],
          fh |-> [fd \in Slots |-> ZeroHandle],
          rootdir |-> ROOT,
          registered |-> b.registered + 1]

\* fs_ramdisk_shutdown finds rootdir set and walks a child list that an
\* earlier shutdown has freed.
ShutdownReadsFreed(b) == b.rootdir # NULL /\ b.file[ROOT].type = "free"

\* De-init the file system: the children of the root and the root are freed.
fs_ramdisk_shutdown(b) ==
    IF b.rootdir = NULL \/ ShutdownReadsFreed(b) THEN b
    ELSE LET list == b.file[ROOT].data
             freed == {ROOT} \cup {list[i] : i \in 1..Len(list)}
         IN  [file |-> [n \in NodeIds |-> IF n \in freed THEN FreeNode ELSE b.file[n]],
              fh |-> b.fh,
              rootdir |-> b.rootdir,
              registered |-> b.registered - 1]

\* ---------------------------------------------------- attach / detach bridge
\* *obj = f->data; *size = f->size;
DetachOut_AfterSwap(node) == [obj |-> malloc(DETACH_DATASIZE), size |-> DETACH_DATASIZE]
DetachOut(node) == [obj |-> node.data, size |-> node.size]

\* fs_ramdisk_attach run from its entry to its return with no step of another
\* thread in between.
fs_ramdisk_attach(s, fn, obj, size, m) ==
    LET o == ramdisk_open(s, fn, {"O_WRONLY", "O_TRUNC"}, m)
    IN  IF o.rv = NULL THEN [file |-> o.file, fh |-> o.fh, rv |-> -1]
        ELSE LET f == o.fh[o.rv].file
                 fl == [o.file EXCEPT ![f].data = obj,
                                      ![f].datasize = size,
                                      ![f].size = size]
                 c == ramdisk_close([file |-> fl, fh |-> o.fh], o.rv)
             IN  [file |-> c.file, fh |-> c.fh, rv |-> 0]

\* fs_ramdisk_detach run likewise; obj and size are what it stores through
\* its out-parameters.
fs_ramdisk_detach(s, fn) ==
    LET o == ramdisk_open(s, fn, O_RDONLY, NULL)
    IN  IF o.rv = NULL
        THEN [file |-> o.file, fh |-> o.fh, rv |-> -1, obj |-> malloc(0), size |-> 0]
        ELSE LET f == o.fh[o.rv].file
                 out == DetachOut(o.file[f])
                 fl == [o.file EXCEPT ![f].data = malloc(DETACH_DATASIZE),
                                      ![f].datasize = DETACH_DATASIZE,
                                      ![f].size = DETACH_DATASIZE]
                 c == ramdisk_close([file |-> fl, fh |-> o.fh], o.rv)
                 u == ramdisk_unlink(c, fn)
             IN  [file |-> u.file, fh |-> u.fh, rv |-> 0,
                  obj |-> out.obj, size |-> out.size]

\* ----------------------------------------------------------------- actions
st == [file |-> file, fh |-> fh]

\* The locals of attach / detach that are still read at the thread's position.
NoLoc == [fn |-> <<>>, obj |-> malloc(0), size |-> 0, fd |-> NULL, f |-> NULL,
          robj |-> malloc(0), rsize |-> 0]

\* The thread stands at the entry of a ramdisk_* function: called through the
\* VFS or as the first call of attach / detach ("idle"), or as a later call
\* of attach / detach.
AtEntry(t) ==
    ~fault /\ pc[t] \in {"idle", "att_close", "det_close", "det_unlink"}

\* The thread is inside attach or detach and holds the handle loc[t].fd.
InBridge(t) ==
    pc[t] \in {"att_760", "att_763", "att_764", "att_close",
               "det_788", "det_793", "det_794", "det_795", "det_close"}

\* Handles the VFS can pass down: attach and detach never hand theirs out.
InternalHandles == {loc[t].fd : t \in {u \in Threads : InBridge(u)}}
UserHandles == Handles \ InternalHandles

\* Nodes malloc can return for a new rd_file_t, or NULL.
MallocNode == {m \in FileIds : file[m].type = "free"} \cup {NULL}

Init ==
    /\ file = fs_ramdisk_init(Blank).file
    /\ fh = fs_ramdisk_init(Blank).fh
    /\ rootdir = fs_ramdisk_init(Blank).rootdir
    /\ registered = fs_ramdisk_init(Blank).registered
    /\ rd_mutex = NULL
    /\ pc = [t \in Threads |-> "idle"]
    /\ loc = [t \in Threads |-> NoLoc]
    /\ fault = FALSE

\* mutex_lock_scoped(&rd_mutex) at the entry of an operation.
Lock(t) ==
    /\ AtEntry(t)
    /\ rd_mutex = NULL
    /\ rd_mutex' = t
    /\ UNCHANGED <<file, fh, pc, loc, fault>>
    /\ UNCHANGED boot

\* The holder of rd_mutex once the scope of mutex_lock_scoped is left.
Unlocked_Held(t) == t
Unlocked(t) == NULL

\* The body of an operation and the release of the mutex at its return: r is
\* what the operation computed.
Return(t, r) ==
    /\ file' = r.file
    /\ fh' = r.fh
    /\ rd_mutex' = Unlocked(t)

\* The thread holds the mutex in a call that entered from "idle".
InCall(t) == pc[t] = "idle" /\ rd_mutex = t

\* The thread is at position p.  A memcpy past the end of a block takes the
\* kernel down: nothing runs after.
At(t, p) == ~fault /\ pc[t] = p

Open(t, e) ==
    /\ InCall(t)
    /\ \E fn \in e.paths, mode \in e.modes, m \in MallocNode :
           Return(t, ramdisk_open(st, fn, mode, m))
    /\ UNCHANGED <<pc, loc, fault>>
    /\ UNCHANGED boot

Close(t) ==
    /\ InCall(t)
    /\ \E fd \in UserHandles : Return(t, ramdisk_close(st, fd))
    /\ UNCHANGED <<pc, loc, fault>>
    /\ UNCHANGED boot

Read(t, e) ==
    /\ InCall(t)
    /\ \E fd \in UserHandles, bytes \in e.readlens :
           LET r == ramdisk_read(st, fd, bytes)
           IN  Return(t, r) /\ fault' = r.oob
    /\ UNCHANGED <<pc, loc>>
    /\ UNCHANGED boot

Write(t, e) ==
    /\ InCall(t)
    /\ \E fd \in UserHandles, buf \in e.payloads, np_ok \in BOOLEAN :
           /\ fd < FS_RAMDISK_MAX_FILES => fh[fd].ptr + RLen(buf) <= MaxFileSize
           /\ LET r == ramdisk_write(st, fd, buf, np_ok)
              IN  Return(t, r) /\ fault' = r.oob
    /\ UNCHANGED <<pc, loc>>
    /\ UNCHANGED boot

Seek(t, e) ==
    /\ InCall(t)
    /\ \E fd \in UserHandles, offset \in e.offsets, whence \in e.whences :
           Return(t, ramdisk_seek(st, fd, offset, whence))
    /\ UNCHANGED <<pc, loc, fault>>
    /\ UNCHANGED boot

Unlink(t, e) ==
    /\ InCall(t)
    /\ \E fn \in e.paths : Return(t, ramdisk_unlink(st, fn))
    /\ UNCHANGED <<pc, loc, fault>>
    /\ UNCHANGED boot

Readdir(t) ==
    /\ InCall(t)
    /\ \E fd \in UserHandles :
           LET r == ramdisk_readdir(st, fd)
           IN  Return(t, r) /\ fault' = r.uaf
    /\ UNCHANGED <<pc, loc>>
    /\ UNCHANGED boot

Rewinddir(t) ==
    /\ InCall(t)
    /\ \E fd \in UserHandles : Return(t, ramdisk_rewinddir(st, fd))
    /\ UNCHANGED <<pc, loc, fault>>
    /\ UNCHANGED boot

Mmap(t) ==
    /\ InCall(t)
    /\ \E fd \in UserHandles : Return(t, ramdisk_mmap(st, fd))
    /\ UNCHANGED <<pc, loc, fault>>
    /\ UNCHANGED boot

\* ramdisk_stat: the root is answered before the mutex is taken.
Stat(t, e) ==
    \E path \in e.paths :
        \/ /\ ~fault /\ pc[t] = "idle" /\ rd_mutex # t
           /\ path = <<>> \/ path = <<"/">>
           /\ ramdisk_stat(st, path).rv = 0
           /\ UNCHANGED vars
        \/ /\ InCall(t)
           /\ ~(path = <<>> \/ path = <<"/">>)
           /\ ramdisk_stat(st, path).rv \in {0, -1}
           /\ rd_mutex' = Unlocked(t)
           /\ UNCHANGED <<file, fh, pc, loc, fault>>
           /\ UNCHANGED boot

Fstat(t) ==
    /\ InCall(t)
    /\ \E fd \in UserHandles : ramdisk_fstat(st, fd).rv \in {0, -1}
    /\ rd_mutex' = Unlocked(t)
    /\ UNCHANGED <<file, fh, pc, loc, fault>>
    /\ UNCHANGED boot

\* fs_ramdisk_init(), which takes no mutex.
FsInit(t) ==
    /\ ~fault /\ pc[t] = "idle" /\ rd_mutex # t
    /\ LET i == fs_ramdisk_init([file |-> file, fh |-> fh, rootdir |-> rootdir,
                                 registered |-> registered])
       IN  /\ file' = i.file
           /\ fh' = i.fh
           /\ rootdir' = i.rootdir
           /\ registered' = i.registered
    /\ UNCHANGED <<rd_mutex, pc, loc, fault>>

\* The root node is allocated: no shutdown has freed it.
Mounted == file[ROOT].type # "free"

\* fs_ramdisk_shutdown(), which takes no mutex.  A second shutdown reads the
\* freed list.
FsShutdown(t) ==
    /\ ~fault /\ pc[t] = "idle" /\ rd_mutex # t
    /\ LET b == [file |-> file, fh |-> fh, rootdir |-> rootdir,
                 registered |-> registered]
           d == fs_ramdisk_shutdown(b)
       IN  /\ file' = d.file
           /\ fh' = d.fh
           /\ rootdir' = d.rootdir
           /\ registered' = d.registered
           /\ fault' = ShutdownReadsFreed(b)
    /\ UNCHANGED <<rd_mutex, pc, loc>>

\* A call made after the shutdown: open, unlink and stat search the freed
\* root, and the calls on a handle that is still open reach a freed node.
CallAfterShutdown(t) ==
    /\ InCall(t)
    /\ ~Mounted
    /\ rd_mutex' = Unlocked(t)
    /\ fault' = TRUE
    /\ UNCHANGED <<file, fh, pc, loc>>
    /\ UNCHANGED boot

\* ---- fs_ramdisk_attach(fn, obj, size)
\* fd = ramdisk_open(&vh, fn, O_WRONLY | O_TRUNC); if(fd == NULL) return -1;
AttachOpen(t, e) ==
    /\ InCall(t)
    /\ \E fn \in e.paths, obj \in e.bufs, m \in MallocNode :
           LET r == ramdisk_open(st, fn, {"O_WRONLY", "O_TRUNC"}, m)
           IN  /\ Return(t, r)
               /\ pc' = [pc EXCEPT ![t] = IF r.rv = NULL THEN "idle" ELSE "att_760"]
               /\ loc' = [loc EXCEPT ![t] =
                             IF r.rv = NULL THEN NoLoc
                             ELSE [NoLoc EXCEPT !.obj = obj, !.size = obj.alloc,
                                                !.fd = r.rv]]
    /\ UNCHANGED fault
    /\ UNCHANGED boot

\* f = fh[(int)fd].file; free(f->data); f->data = obj;
Attach760(t) ==
    /\ At(t, "att_760")
    /\ LET f == fh[loc[t].fd].file
       IN  /\ loc' = [loc EXCEPT ![t].f = f, ![t].obj = NoLoc.obj]
           /\ file' = [file EXCEPT ![f].data = loc[t].obj]
    /\ pc' = [pc EXCEPT ![t] = "att_763"]
    /\ UNCHANGED <<fh, rd_mutex, fault>>
    /\ UNCHANGED boot

\* f->datasize = size;
Attach763(t) ==
    /\ At(t, "att_763")
    /\ file' = [file EXCEPT ![loc[t].f].datasize = loc[t].size]
    /\ pc' = [pc EXCEPT ![t] = "att_764"]
    /\ UNCHANGED <<fh, rd_mutex, loc, fault>>
    /\ UNCHANGED boot

\* f->size = size;
Attach764(t) ==
    /\ At(t, "att_764")
    /\ file' = [file EXCEPT ![loc[t].f].size = loc[t].size]
    /\ pc' = [pc EXCEPT ![t] = "att_close"]
    /\ loc' = [loc EXCEPT ![t].f = NULL, ![t].size = 0]
    /\ UNCHANGED <<fh, rd_mutex, fault>>
    /\ UNCHANGED boot

\* ramdisk_close(fd); return 0;
AttachClose(t) ==
    /\ At(t, "att_close")
    /\ rd_mutex = t
    /\ Return(t, ramdisk_close(st, loc[t].fd))
    /\ pc' = [pc EXCEPT ![t] = "idle"]
    /\ loc' = [loc EXCEPT ![t] = NoLoc]
    /\ UNCHANGED fault
    /\ UNCHANGED boot

\* ---- fs_ramdisk_detach(fn, obj, size)
\* fd = ramdisk_open(&vh, fn, O_RDONLY); if(fd == NULL) return -1;
DetachOpen(t, e) ==
    /\ InCall(t)
    /\ \E fn \in e.paths :
           LET r == ramdisk_open(st, fn, O_RDONLY, NULL)
           IN  /\ Return(t, r)
               /\ pc' = [pc EXCEPT ![t] = IF r.rv = NULL THEN "idle" ELSE "det_788"]
               /\ loc' = [loc EXCEPT ![t] =
                             IF r.rv = NULL THEN NoLoc
                             ELSE [NoLoc EXCEPT !.fn = fn, !.fd = r.rv]]
    /\ UNCHANGED fault
    /\ UNCHANGED boot

\* f = fh[(int)fd].file; *obj = f->data; *size = f->size;
Detach788(t) ==
    /\ At(t, "det_788")
    /\ LET f == fh[loc[t].fd].file
       IN  loc' = [loc EXCEPT ![t].f = f, ![t].robj = DetachOut(file[f]).obj,
                              ![t].rsize = DetachOut(file[f]).size]
    /\ pc' = [pc EXCEPT ![t] = "det_793"]
    /\ UNCHANGED <<file, fh, rd_mutex, fault>>
    /\ UNCHANGED boot

\* f->data = malloc(64);
Detach793(t) ==
    /\ At(t, "det_793")
    /\ file' = [file EXCEPT ![loc[t].f].data = malloc(DETACH_DATASIZE)]
    /\ pc' = [pc EXCEPT ![t] = "det_794"]
    /\ UNCHANGED <<fh, rd_mutex, loc, fault>>
    /\ UNCHANGED boot

\* f->datasize = 64;
Detach794(t) ==
    /\ At(t, "det_794")
    /\ file' = [file EXCEPT ![loc[t].f].datasize = DETACH_DATASIZE]
    /\ pc' = [pc EXCEPT ![t] = "det_795"]
    /\ UNCHANGED <<fh, rd_mutex, loc, fault>>
    /\ UNCHANGED boot

\* f->size = 64;
Detach795(t) ==
    /\ At(t, "det_795")
    /\ file' = [file EXCEPT ![loc[t].f].size = DETACH_DATASIZE]
    /\ pc' = [pc EXCEPT ![t] = "det_close"]
    /\ loc' = [loc EXCEPT ![t].f = NULL]
    /\ UNCHANGED <<fh, rd_mutex, fault>>
    /\ UNCHANGED boot

\* ramdisk_close(fd);
DetachClose(t) ==
    /\ At(t, "det_close")
    /\ rd_mutex = t
    /\ Return(t, ramdisk_close(st, loc[t].fd))
    /\ pc' = [pc EXCEPT ![t] = "det_unlink"]
    /\ loc' = [loc EXCEPT ![t].fd = NULL]
    /\ UNCHANGED fault
    /\ UNCHANGED boot

\* ramdisk_unlink(&vh, fn); return 0;
DetachUnlink(t) ==
    /\ At(t, "det_unlink")
    /\ rd_mutex = t
    /\ Return(t, ramdisk_unlink(st, loc[t].fn))
    /\ pc' = [pc EXCEPT ![t] = "idle"]
    /\ loc' = [loc EXCEPT ![t] = NoLoc]
    /\ UNCHANGED fault
    /\ UNCHANGED boot

\* ------------------------------------------------------------ environments
\* What the callers do: the threads that run, and the arguments they pass.
\* Every environment calls every operation; each widens the arguments of the
\* operations its claims are about.
\* Threads racing on one file and the root: opens in every mode, closes,
\* attach and detach; one read, write and seek.
EnvRace ==
    [paths |-> { <<>>, <<"a">> },
     modes |-> { {}, {"O_DIR"}, {"O_WRONLY"} },
     payloads |-> { Bytes7(INIT_DATASIZE) },
     readlens |-> {2000},
     offsets |-> {0},
     whences |-> {SEEK_SET},
     bufs |-> { Buffer(1, INIT_DATASIZE) }]

Next ==
    \E t \in Threads :
        \/ Lock(t)
        \/ Open(t, EnvRace)
        \/ Close(t)
        \/ Read(t, EnvRace)
        \/ Write(t, EnvRace)
        \/ Seek(t, EnvRace)
        \/ Unlink(t, EnvRace)
        \/ AttachOpen(t, EnvRace)
        \/ Attach760(t)
        \/ Attach763(t)
        \/ Attach764(t)
        \/ AttachClose(t)
        \/ DetachOpen(t, EnvRace)
        \/ Detach788(t)
        \/ Detach793(t)
        \/ Detach794(t)
        \/ Detach795(t)
        \/ DetachClose(t)
        \/ DetachUnlink(t)

Spec == Init /\ [][Next]_vars

\* Two threads on one file under a fair scheduler: a thread that can take a
\* step takes one, and a thread blocked in mutex_lock gets the mutex once it
\* has been released often enough.
EnvLive ==
    [paths |-> { <<"a">> },
     modes |-> { O_RDONLY },
     payloads |-> {}, readlens |-> {}, offsets |-> {}, whences |-> {},
     bufs |-> { Buffer(1, INIT_DATASIZE) }]

\* The steps of thread t past the mutex_lock of a call.
Body(t) ==
    \/ Open(t, EnvLive)
    \/ Close(t)
    \/ Unlink(t, EnvLive)
    \/ AttachOpen(t, EnvLive)
    \/ Attach760(t)
    \/ Attach763(t)
    \/ Attach764(t)
    \/ AttachClose(t)
    \/ DetachOpen(t, EnvLive)
    \/ Detach788(t)
    \/ Detach793(t)
    \/ Detach794(t)
    \/ Detach795(t)
    \/ DetachClose(t)
    \/ DetachUnlink(t)

NextLive ==
    \E t \in Threads :
        \/ Lock(t)
        \/ Open(t, EnvLive)
        \/ Close(t)
                    \/ Unlink(t, EnvLive)
        \/ AttachOpen(t, EnvLive)
        \/ Attach760(t)
        \/ Attach763(t)
        \/ Attach764(t)
        \/ AttachClose(t)
        \/ DetachOpen(t, EnvLive)
        \/ Detach788(t)
        \/ Detach793(t)
        \/ Detach794(t)
        \/ Detach795(t)
        \/ DetachClose(t)
        \/ DetachUnlink(t)

Fairness == \A t \in Threads : SF_vars(Lock(t)) /\ WF_vars(Body(t))

SpecFair == Init /\ [][NextLive]_vars /\ Fairness

\* One thread naming two files in every spelling: with and without the
\* leading slash, in either case, and below a file.
EnvNames ==
    [paths |-> { <<>>, <<"a">>, <<"A">>, <<"b">>, <<"/", "a">>, <<"a", "/", "b">> },
     modes |-> { {}, {"O_WRONLY"} },
     payloads |-> { Bytes7(INIT_DATASIZE) },
     readlens |-> {2000},
     offsets |-> {0},
     whences |-> {SEEK_SET},
     bufs |-> { Buffer(1, INIT_DATASIZE) }]

NextNames ==
    \E t \in {1} :
        \/ Lock(t)
        \/ Open(t, EnvNames)
        \/ Close(t)
        \/ Read(t, EnvNames)
        \/ Write(t, EnvNames)
        \/ Seek(t, EnvNames)
        \/ Unlink(t, EnvNames)
        \/ AttachOpen(t, EnvNames)
        \/ Attach760(t)
        \/ Attach763(t)
        \/ Attach764(t)
        \/ AttachClose(t)
        \/ DetachOpen(t, EnvNames)
        \/ Detach788(t)
        \/ Detach793(t)
        \/ Detach794(t)
        \/ Detach795(t)
        \/ DetachClose(t)
        \/ DetachUnlink(t)

SpecNames == Init /\ [][NextNames]_vars

\* Threads that create and remove two files while directory handles on the
\* root enumerate it.
EnvDir ==
    [paths |-> { <<>>, <<"a">>, <<"b">> },
     modes |-> { {"O_DIR"}, {"O_WRONLY"} },
     payloads |-> {}, readlens |-> {}, offsets |-> {}, whences |-> {},
     bufs |-> {}]

NextDir ==
    \E t \in Threads :
        \/ Lock(t)
        \/ Open(t, EnvDir)
        \/ Close(t)
        \/ Unlink(t, EnvDir)
        \/ Readdir(t)
        \/ Rewinddir(t)
        \/ Mmap(t)
        \/ Stat(t, EnvDir)
        \/ Fstat(t)
        \/ FsInit(t)

SpecDir == Init /\ [][NextDir]_vars

\* Threads that open and close files and directories while the file system
\* is initialised and shut down.
\* ramdisk_open and ramdisk_close while the root is allocated.
OpenMounted(t) == Mounted /\ Open(t, EnvDir)
CloseMounted(t) == Mounted /\ Close(t)

NextLife ==
    \E t \in Threads :
        \/ Lock(t)
        \/ OpenMounted(t)
        \/ CloseMounted(t)
        \/ FsInit(t)
        \/ FsShutdown(t)
        \/ CallAfterShutdown(t)

SpecLife == Init /\ [][NextLife]_vars

\* ------------------------------------------------------------------ claims
\* The handle slots that refer to node n.
HandlesOn(n) == {fd \in Slots : fh[fd].file = n}

\* The mode asks for O_WRONLY or O_RDWR.
Writable(mode) == mode \cap O_MODE_MASK # {}

\* Paths and modes a caller can pass to ramdisk_open from any state.
ProbePaths ==
    { <<>>, <<"a">>, <<"A">>, <<"b">>, <<"/", "a">>, <<"a", "/", "b">> }
ProbeModes ==
    { O_RDONLY, {"O_DIR"}, {"O_WRONLY"}, {"O_RDWR"}, {"O_WRONLY", "O_APPEND"},
      {"O_WRONLY", "O_TRUNC"}, {"O_RDWR", "O_TRUNC"},
      {"O_WRONLY", "O_TRUNC", "O_APPEND"}, {"O_WRONLY", "O_DIR"} }

\* C1: a node with a handle opened in a writable mode has exactly one handle
\* referring to it; several handles refer to one node only when all of them
\* were opened read-only.
ExclusiveWriter ==
    \A n \in NodeIds :
        (\E fd \in HandlesOn(n) : Writable(fh[fd].omode))
            => Cardinality(HandlesOn(n)) = 1

\* A writer holds a file it has written while the other slot is open on
\* another node.
WriterOpen ==
    \E n \in FileIds :
        /\ \E fd \in HandlesOn(n) : Writable(fh[fd].omode)
        /\ file[n].size = INIT_DATASIZE
        /\ HandlesOn(ROOT) # {}

\* C2: a node's use count is the number of handle slots that refer to it and
\* is never negative; an open that fails and a close of a free slot leave
\* every use count as it was.
UsageCountsHandles ==
    /\ \A n \in NodeIds :
           file[n].usage = Cardinality(HandlesOn(n)) /\ file[n].usage >= 0
    /\ \A fn \in ProbePaths, mode \in ProbeModes, m \in MallocNode :
           LET r == ramdisk_open(st, fn, mode, m)
           IN  r.rv = NULL => \A n \in NodeIds : r.file[n].usage = file[n].usage
    /\ \A fd \in Handles :
           (fd < FS_RAMDISK_MAX_FILES => fh[fd].file = NULL)
               => \A n \in NodeIds :
                      ramdisk_close(st, fd).file[n].usage = file[n].usage

\* Two handles are open on one file.
TwoHandlesOnFile == \E n \in FileIds : file[n].usage = 2

\* C3: a node whose use count is 0 has open mode none: the close of the last
\* handle resets it, and a node created by an open that then fails has it.
IdleNodeNotOpen ==
    \A n \in NodeIds :
        (file[n].type # "free" /\ file[n].usage = 0)
            => file[n].openfor = OPENFOR_NOTHING

\* A file that was written through a handle and closed since.
WrittenFileClosed ==
    \E n \in FileIds :
        /\ file[n].type = STAT_TYPE_FILE
        /\ file[n].usage = 0
        /\ file[n].openfor = OPENFOR_NOTHING
        /\ file[n].size = INIT_DATASIZE

\* C4: every open file handle has 0 <= cursor <= logical size of its node,
\* attach and detach issued while other handles are open included.
CursorWithinSize ==
    \A fd \in Slots :
        (fh[fd].file # NULL /\ ~fh[fd].dir)
            => /\ 0 <= fh[fd].ptr
               /\ fh[fd].ptr <= file[fh[fd].file].size

\* C5: every file node has capacity >= logical size >= 0, across creation,
\* truncating open, write, attach and detach.
CapacityCoversSize ==
    \A n \in NodeIds :
        file[n].type = STAT_TYPE_FILE
            => file[n].datasize >= file[n].size /\ file[n].size >= 0

\* C6: no two nodes of one directory have names that are equal when compared
\* without regard to case.
NamesUnique ==
    \A d \in NodeIds :
        file[d].type = STAT_TYPE_DIR =>
            \A i, j \in 1..Len(file[d].data) :
                i # j => ~strncasecmp_eq(file[file[d].data[i]].name,
                                         file[file[d].data[j]].name)

\* The root holds two files, one of them named in upper case.
TwoNamesInRoot ==
    /\ Len(file[ROOT].data) = 2
    /\ \E i \in 1..2 : file[file[ROOT].data[i]].name = <<"A">>

\* C7: every step that changes the node store or the handle table, those of
\* attach and detach included, is taken by the thread that holds rd_mutex.
MutationUnderMutex ==
    [][(file' # file \/ fh' # fh)
           => /\ rd_mutex # NULL
              /\ \A t \in Threads : pc'[t] # pc[t] => rd_mutex = t]_vars

\* C8: while a handle is open on a node every open of it in a writable mode
\* fails, in the call itself; while a writer's handle is open every open of
\* it fails; once no handle is left on a file a writable open of it succeeds
\* provided a handle slot is free.
TryAndFail ==
    \A fn \in ProbePaths, mode \in ProbeModes, m \in MallocNode :
        LET n == OpenLookup(file, fn, mode)
            r == ramdisk_open(st, fn, mode, m)
        IN  n # NULL =>
                /\ (Writable(mode) /\ HandlesOn(n) # {}) => r.rv = NULL
                /\ (\E fd \in HandlesOn(n) : Writable(fh[fd].omode))
                       => r.rv = NULL
                /\ ( /\ Writable(mode) /\ "O_DIR" \notin mode
                     /\ file[n].type = STAT_TYPE_FILE
                     /\ HandlesOn(n) = {}
                     /\ FindFreeHandle(fh) < FS_RAMDISK_MAX_FILES )
                       => r.rv # NULL /\ r.fh[r.rv].file = n

\* A thread is in a call, holding the mutex, while a writer's handle is open
\* on a file and a slot is free.
CallerMeetsWriter ==
    \E n \in FileIds, t \in Threads :
        /\ InCall(t)
        /\ \E fd \in HandlesOn(n) : Writable(fh[fd].omode)
        /\ FindFreeHandle(fh) < FS_RAMDISK_MAX_FILES

\* C9: an open of a path that does not resolve fails and creates no node in
\* a read-only mode or with the directory flag; in a writable mode with no
\* directory flag and a parent that resolves it creates exactly one file
\* node in that parent, of size 0 and capacity 1024 under the name supplied,
\* and returns a handle on it with cursor 0.  (The allocations succeed.)
CreateOnOpenIf(slot) ==
    \A fn \in ProbePaths, mode \in ProbeModes, m \in MallocNode \ {NULL} :
        LET r == ramdisk_open(st, fn, mode, m)
            gp == ramdisk_get_parent(file, ROOT, SkipSlash(fn))
        IN  OpenLookup(file, fn, mode) = NULL =>
                /\ (~Writable(mode) \/ "O_DIR" \in mode)
                       => r.rv = NULL /\ r.file = file
                /\ (Writable(mode) /\ "O_DIR" \notin mode /\ gp.rc = 0 /\ slot) =>
                       /\ {k \in NodeIds : r.file[k].type # file[k].type} = {m}
                       /\ r.file[m].type = STAT_TYPE_FILE
                       /\ r.file[m].size = 0
                       /\ r.file[m].datasize = INIT_DATASIZE
                       /\ r.file[m].name = gp.fnout
                       /\ r.file[gp.dout].data = LIST_INSERT_HEAD(file[gp.dout].data, m)
                       /\ r.rv # NULL
                       /\ r.fh[r.rv].file = m
                       /\ r.fh[r.rv].ptr = 0
CreateOnOpen == CreateOnOpenIf(TRUE)

\* The same with a handle slot free when the open is issued.
CreateOnOpenSlotFree == CreateOnOpenIf(FindFreeHandle(fh) < FS_RAMDISK_MAX_FILES)

\* C10: on a handle opened writable with truncation, write(h, B), then
\* seek(h, 0, start), then read(h, buf, |B|) returns |B| with buf = B, also
\* when B is long enough to force a reallocation.
RTPayloads ==
    { <<>>, << <<1, 8>> >>, Bytes7(INIT_DATASIZE),
      << <<1, 8>>, <<INIT_DATASIZE, 9>> >> }
RoundTripFrom(modes) ==
    \A fn \in ProbePaths, mode \in modes, m \in MallocNode, B \in RTPayloads :
        LET o == ramdisk_open(st, fn, mode, m)
        IN  o.rv # NULL =>
                LET w == ramdisk_write(o, o.rv, B, TRUE)
                    k == ramdisk_seek(w, o.rv, 0, SEEK_SET)
                    r == ramdisk_read(k, o.rv, RLen(B))
                IN  /\ w.rv = RLen(B)
                    /\ k.rv = 0
                    /\ r.rv = RLen(B)
                    /\ r.buf = B
WriteReadRoundTrip ==
    RoundTripFrom({mode \in ProbeModes :
                      Writable(mode) /\ "O_TRUNC" \in mode /\ "O_DIR" \notin mode})

\* The same round trip on the handles opened with O_TRUNC and without
\* O_APPEND, the ones whose open does truncate.
TruncatedRoundTrip ==
    RoundTripFrom({mode \in ProbeModes :
                      /\ Writable(mode) /\ "O_TRUNC" \in mode
                      /\ "O_DIR" \notin mode /\ "O_APPEND" \notin mode})

\* Buffers and sizes a caller can pass to fs_ramdisk_attach.
ProbeBufs ==
    { Buffer(1, 0), Buffer(1, DETACH_DATASIZE), Buffer(2, INIT_DATASIZE),
      [alloc |-> DETACH_DATASIZE, bytes |-> <<>>, id |-> 2] }

\* A thread has entered a call and holds the mutex: the states calls start in.
Calling == \E t \in Threads : InCall(t)

\* The path names a file no handle is open on, or a file that open can create.
Attachable(fn, m) ==
    LET n == OpenLookup(file, fn, {"O_WRONLY", "O_TRUNC"})
    IN  IF n = NULL
        THEN m # NULL /\ ramdisk_get_parent(file, ROOT, SkipSlash(fn)).rc = 0
        ELSE file[n].type = STAT_TYPE_FILE /\ HandlesOn(n) = {}

\* C11: for a path with no open handle and with a free handle slot,
\* attach(p, B, n) followed directly by detach(p, &B', &n') succeeds with B'
\* the buffer B itself and n' = n, whether or not p existed before.
AttachDetachRoundTrip ==
    \A fn \in ProbePaths, B \in ProbeBufs, m \in MallocNode :
        ( /\ Calling
          /\ Attachable(fn, m)
          /\ FindFreeHandle(fh) < FS_RAMDISK_MAX_FILES ) =>
            LET a == fs_ramdisk_attach(st, fn, B, B.alloc, m)
                d == fs_ramdisk_detach(a, fn)
            IN  /\ a.rv = 0
                /\ d.rv = 0
                /\ d.obj = B
                /\ d.size = B.alloc

\* A detach has taken out of a node the buffer an attach put there.
DetachTookBuffer ==
    \E t \in Threads :
        /\ pc[t] = "det_793"
        /\ loc[t].robj.id # HEAP
        /\ loc[t].rsize = INIT_DATASIZE

\* C12: whenever detach returns success the node has been unlinked: once
\* detach has returned, stat of its path reports not-found, in every
\* interleaving with threads that hold or take a read handle on the node.
DetachUnlinked ==
    [][\A t \in Threads :
           (pc[t] = "det_unlink" /\ pc'[t] = "idle")
               => ramdisk_stat([file |-> file', fh |-> fh'], loc[t].fn).rv = -1]_vars

\* Block a is the caller's buffer b (blocks of the heap are not told apart).
SameBuffer(a, b) == a.id # HEAP /\ a.id = b.id

\* C13: when detach returns success the caller owns the returned buffer
\* alone: no node references it, and no handle that is still open reaches
\* it, through a later read or through a pointer it got earlier from mmap.
DetachedBufferExclusive ==
    \A fn \in ProbePaths, fd \in Slots :
        LET p == ramdisk_mmap(st, fd)
            d == fs_ramdisk_detach(st, fn)
        IN  (Calling /\ d.rv = 0) =>
                /\ \A n \in NodeIds :
                       d.file[n].type = STAT_TYPE_FILE
                           => ~SameBuffer(d.obj, d.file[n].data)
                /\ d.fh[fd].file # NULL =>
                       /\ ~(p.ok /\ SameBuffer(d.obj, p.blk))
                       /\ ~SameBuffer(d.obj, ramdisk_mmap(d, fd).blk)

\* C14: unlink removes a node only if its path resolves to a file whose use
\* count is 0; for a path that does not exist, a file in use, a directory or
\* the root ("" or "/") it returns -1 and leaves the tree, every node and the
\* handle table as they were: it never frees the root nor a node that an
\* open handle refers to.
UnlinkOnlyIdleFiles ==
    \A fn \in ProbePaths \cup { <<"/">> } :
        LET u == ramdisk_unlink(st, fn)
            freed == {n \in NodeIds : file[n].type # "free" /\ u.file[n].type = "free"}
        IN  Calling =>
                /\ u.rv \in {0, -1}
                /\ u.fh = fh
                /\ u.rv = -1 => u.file = file
                /\ u.rv = 0 =>
                       /\ Cardinality(freed) = 1
                       /\ ramdisk_stat(st, fn).rv = 0
                       /\ ramdisk_stat(u, fn).rv = -1
                       /\ \A k \in NodeIds \ freed : u.file[k] =
                              IF k = ROOT
                              THEN [file[k] EXCEPT !.data =
                                       SelectSeq(@, LAMBDA x : x \notin freed)]
                              ELSE file[k]
                /\ \A n \in freed :
                       /\ n # ROOT
                       /\ file[n].type = STAT_TYPE_FILE
                       /\ file[n].usage = 0
                       /\ HandlesOn(n) = {}
                /\ (fn \in { <<>>, <<"/">> } \/ ramdisk_stat(st, fn).rv = -1)
                       => u.rv = -1
                /\ (\E n \in NodeIds :
                        /\ HandlesOn(n) # {}
                        /\ strncasecmp_eq(file[n].name, SkipSlash(fn)))
                       => u.rv = -1

\* Every file is gone again, one of them written through a handle before.
WrittenFileUnlinked ==
    /\ \A n \in FileIds : file[n].type = "free"
    /\ \E fd \in Slots : fh[fd].file = NULL /\ fh[fd].ptr = INIT_DATASIZE

\* The children that k readdir calls in a row on handle fd yield, NULL for a
\* call that returns null.
RECURSIVE ReaddirRun(_, _, _)
ReaddirRun(s, fd, k) ==
    IF k = 0 THEN <<>>
    ELSE LET r == ramdisk_readdir(s, fd)
         IN  <<r.node>> \o ReaddirRun(r, fd, k - 1)

\* A run of readdir calls yields every child of directory d once, then null.
EnumeratesOnce(s, fd, d) ==
    LET n == Len(s.file[d].data)
        run == ReaddirRun(s, fd, n + 2)
    IN  /\ {run[i] : i \in 1..n} = {s.file[d].data[i] : i \in 1..n}
        /\ run[n + 1] = NULL
        /\ run[n + 2] = NULL

\* C15: on a directory handle, with no create or unlink in the directory
\* meanwhile, the readdir calls after the open or after a rewinddir yield
\* every child exactly once and then null on every further call; rewinddir
\* restarts the enumeration from the first child.
ReaddirEnumerates ==
    Calling =>
        /\ \A fn \in ProbePaths :
               LET o == ramdisk_open(st, fn, {"O_DIR"}, NULL)
               IN  o.rv # NULL => EnumeratesOnce(o, o.rv, o.fh[o.rv].file)
        /\ \A fd \in Slots :
               LET w == ramdisk_rewinddir(st, fd)
               IN  w.rv = 0 =>
                       /\ w.fh[fd].ptr = LIST_FIRST(file[fh[fd].file].data)
                       /\ EnumeratesOnce(w, fd, fh[fd].file)

\* A directory handle has run through both children of the root.
EnumerationDone ==
    \E fd \in Slots :
        /\ fh[fd].file = ROOT /\ fh[fd].dir
        /\ Len(file[ROOT].data) = 2
        /\ fh[fd].ptr = NULL
        /\ fh[fd].dirent.name = file[file[ROOT].data[2]].name

\* The handle slots that are free.
FreeSlots(h) == {fd \in Slots : h[fd].file = NULL}

\* C16: for a node with use count 0, a successful read-only open followed by
\* the close of the handle it returned restores the state: the same nodes
\* with the same content, logical size and capacity, open mode none and use
\* count 0 on that node, and the same set of free handle slots.
OpenCloseRestores ==
    \A fn \in ProbePaths, mode \in {O_RDONLY, {"O_DIR"}} :
        LET n == OpenLookup(file, fn, mode)
            o == ramdisk_open(st, fn, mode, NULL)
            c == ramdisk_close(o, o.rv)
        IN  (Calling /\ o.rv # NULL /\ HandlesOn(n) = {}) =>
                /\ c.rv = 0
                /\ c.file = file
                /\ c.file[n].openfor = OPENFOR_NOTHING
                /\ c.file[n].usage = 0
                /\ FreeSlots(c.fh) = FreeSlots(fh)

\* The root, with no handle on it now, has been opened as a directory and
\* closed.
DirHandleClosed ==
    /\ file[ROOT].usage = 0
    /\ file[ROOT].openfor = OPENFOR_NOTHING
    /\ \E fd \in Slots : fh[fd].file = NULL /\ fh[fd].omode = {"O_DIR"}

\* The statics fs_ramdisk_init reads and writes, as they are now.
statics ==
    [file |-> file, fh |-> fh, rootdir |-> rootdir, registered |-> registered]

\* C17: init on a file system that is initialized, whatever nodes it holds
\* and whatever handles are open, changes nothing: the root, its children,
\* the handle table and the registration with the VFS stay as they are.
InitIdempotent == fs_ramdisk_init(statics) = statics

\* A thread can call init while the root has two children and a handle is
\* open on one of them.
InitOnBusyTree ==
    /\ \E t \in Threads : ENABLED FsInit(t)
    /\ Len(file[ROOT].data) = 2
    /\ \E n \in FileIds : HandlesOn(n) # {}
    /\ registered = 1

\* C18: close always returns success; the close of a handle whose slot is
\* free (never opened, or closed already) changes no state, so closing one
\* handle twice takes the node's use count down once, and frees one slot.
CloseTwice ==
    \A fd \in Handles :
        LET c == ramdisk_close(st, fd)
            cc == ramdisk_close(c, fd)
            open == fd < FS_RAMDISK_MAX_FILES /\ fh[fd].file # NULL
        IN  Calling =>
                /\ c.rv = 0 /\ cc.rv = 0
                /\ ~open => c.file = file /\ c.fh = fh
                /\ cc.file = c.file /\ cc.fh = c.fh
                /\ open =>
                       /\ FreeSlots(cc.fh) = FreeSlots(fh) \cup {fd}
                       /\ \A n \in NodeIds : cc.file[n].usage =
                              IF n = fh[fd].file THEN file[n].usage - 1
                              ELSE file[n].usage

\* A call starts while one slot is open and the other has been closed.
CallerHoldsClosedHandle ==
    /\ Calling
    /\ \E fd \in Slots : fh[fd].file = NULL /\ fh[fd].omode # {}
    /\ \E fd \in Slots : fh[fd].file # NULL

\* C19: a handle returned by a successful open is the lowest-numbered free
\* slot of 1..FS_RAMDISK_MAX_FILES-1 and was free before the call; slot 0 is
\* never occupied, so at most FS_RAMDISK_MAX_FILES-1 handles are open; an
\* open issued with all of those slots occupied fails and leaves every slot
\* as it was.
HandleAllocation ==
    /\ fh[0].file = NULL
    /\ Cardinality(Slots \ FreeSlots(fh)) <= FS_RAMDISK_MAX_FILES - 1
    /\ Calling =>
           \A fn \in ProbePaths, mode \in ProbeModes, m \in MallocNode :
               LET o == ramdisk_open(st, fn, mode, m)
               IN  /\ o.rv # NULL =>
                          /\ o.rv \in 1..(FS_RAMDISK_MAX_FILES - 1)
                          /\ fh[o.rv].file = NULL
                          /\ \A g \in 1..(o.rv - 1) : fh[g].file # NULL
                          /\ o.fh[o.rv].file # NULL
                          /\ \A g \in Slots \ {o.rv} : o.fh[g] = fh[g]
                   /\ FreeSlots(fh) = {0} => o.rv = NULL /\ o.fh = fh

\* A call starts with every slot but slot 0 occupied, and another with the
\* first slot free below an occupied one.
TableFullAtCall ==
    /\ Calling
    /\ FreeSlots(fh) = {0}
LowSlotFreedAtCall ==
    /\ Calling
    /\ fh[1].file = NULL
    /\ fh[2].file # NULL

\* C20: after an unlink removes the child a directory handle's cursor
\* points to, the next readdir on that handle neither dereferences the
\* removed node nor yields it.
UnlinkUnderCursor ==
    \A fd \in Slots, fn \in ProbePaths :
        LET u == ramdisk_unlink(st, fn)
            gone == {n \in NodeIds : file[n].type # "free" /\ u.file[n].type = "free"}
            r == ramdisk_readdir(u, fd)
        IN  (Calling /\ u.rv = 0 /\ fh[fd].file # NULL /\ fh[fd].dir
                /\ fh[fd].ptr \in gone) =>
                /\ ~r.uaf
                /\ r.node \notin gone

\* Offsets, whence values and read lengths a caller can pass from any state.
ProbeOffsets == {-2000, -INIT_DATASIZE, -1, 0, 1, INIT_DATASIZE, 2000}
ProbeWhences == {SEEK_SET, SEEK_CUR, SEEK_END, "SEEK_DATA"}
ProbeReadLens == {0, 1, 2000}

\* The slot is open on a file.
FileHandle(fd) == fh[fd].file # NULL /\ ~fh[fd].dir

WriteGrows ==
    \A fd \in UserHandles \cap Slots, buf \in RTPayloads :
        LET w == ramdisk_write(st, fd, buf, TRUE)
            f == fh[fd].file
            c == fh[fd].ptr
            n == RLen(buf)
            old == file[f]
            new == w.file[f]
            head == IF c < old.size THEN c ELSE old.size
            tail == old.size - (c + n)
        IN  (Calling /\ FileHandle(fd) /\ Writable(fh[fd].omode)) =>
                /\ w.rv = n
                /\ ~w.oob
                /\ w.fh = [fh EXCEPT ![fd].ptr = c + n]
                /\ \A k \in NodeIds \ {f} : w.file[k] = file[k]
                /\ new = [old EXCEPT !.data = new.data, !.size = new.size,
                                     !.datasize = new.datasize]
                /\ new.size = IF old.size > c + n THEN old.size ELSE c + n
                /\ new.datasize = IF c + n > old.datasize
                                  THEN c + n + REALLOC_SLACK ELSE old.datasize
                /\ new.data.alloc >= new.datasize
                /\ RSlice(new.data.bytes, c, n) = buf
                /\ RSlice(new.data.bytes, 0, head) = RSlice(old.data.bytes, 0, head)
                /\ tail > 0 => RSlice(new.data.bytes, c + n, tail)
                                   = RSlice(old.data.bytes, c + n, tail)

\* A call starts while a writer's handle stands at the end of a file that is
\* as large as its capacity: the next byte written reallocates.
WriterAtCapacity ==
    /\ Calling
    /\ \E fd \in UserHandles \cap Slots :
           /\ FileHandle(fd)
           /\ Writable(fh[fd].omode)
           /\ fh[fd].ptr = INIT_DATASIZE
           /\ file[fh[fd].file].size = INIT_DATASIZE
           /\ file[fh[fd].file].datasize = INIT_DATASIZE

\* C23: a write through a handle opened read-only, through a directory
\* handle, through a free slot or through a handle outside the table returns
\* -1 and leaves every node and every handle as they were; a write that
\* changes a node goes through the one handle on it, opened writable.
WriteNeedsWriter ==
    \A fd \in UserHandles, buf \in RTPayloads, np_ok \in BOOLEAN :
        LET w == ramdisk_write(st, fd, buf, np_ok)
            mine == fd < FS_RAMDISK_MAX_FILES /\ FileHandle(fd)
                        /\ Writable(fh[fd].omode)
        IN  Calling =>
                /\ ~mine => w.rv = -1 /\ w.file = file /\ w.fh = fh /\ ~w.oob
                /\ w.file # file => mine /\ HandlesOn(fh[fd].file) = {fd}

\* A call starts while a read-only handle and a directory handle are open,
\* the first on a file that holds data.
ReaderOnData ==
    /\ Calling
    /\ \E fd \in UserHandles \cap Slots :
           /\ FileHandle(fd)
           /\ ~Writable(fh[fd].omode)
           /\ file[fh[fd].file].size = INIT_DATASIZE
    /\ \E fd \in UserHandles \cap Slots : fh[fd].file # NULL /\ fh[fd].dir

\* The node a path names for ramdisk_stat.
StatNode(path) ==
    IF path = <<>> \/ path = <<"/">> THEN ROOT
    ELSE ramdisk_find_path(file, ROOT, path, FALSE)

\* C24: stat of a path and fstat of a handle on the node the path names fill
\* in the same values, and the mode is the type bit with read and write
\* permission for all and, for a directory, execute permission for all.
StatFstatAgree ==
    \A fd \in Slots, path \in ProbePaths \cup { <<"/">> } :
        LET p == ramdisk_stat(st, path)
            h == ramdisk_fstat(st, fd)
            node == file[fh[fd].file]
            mode == IF node.type = STAT_TYPE_DIR
                    THEN S_IFDIR \cup S_IRWUGO \cup S_IXUGO
                    ELSE S_IFREG \cup S_IRWUGO
        IN  (Calling /\ fh[fd].file # NULL /\ StatNode(path) = fh[fd].file) =>
                /\ p.rv = 0 /\ h.rv = 0
                /\ p = h
                /\ p.st_mode = mode
                /\ h.st_mode = mode

\* The same for the handles on files.
StatFstatAgreeOnFiles ==
    \A fd \in Slots, path \in ProbePaths :
        LET p == ramdisk_stat(st, path)
            h == ramdisk_fstat(st, fd)
        IN  (Calling /\ FileHandle(fd) /\ StatNode(path) = fh[fd].file) =>
                /\ p = h
                /\ p.st_mode = S_IFREG \cup S_IRWUGO

\* Byte counts of the whole size_t range: 2^31-1, 2^31, 2^32-1024 and 2^32-1
\* besides the small ones.
ProbeCounts ==
    ProbeReadLens \cup {INT32_MAX, -INT32_MAX - 1, -INIT_DATASIZE, -1}

\* The read of n bytes through fd copies min(n, size - c) bytes, returns that
\* count and advances the cursor by it.
ReadClampsOn(fd, n) ==
    LET r == ramdisk_read(st, fd, n)
        f == fh[fd].file
        c == fh[fd].ptr
        left == file[f].size - c
        count == IF Above32(n, left) THEN left ELSE n
    IN  (Calling /\ FileHandle(fd) /\ 0 <= c /\ c <= file[f].size) =>
            /\ r.rv = count
            /\ r.fh = [fh EXCEPT ![fd].ptr = c + count]
            /\ r.file = file
            /\ RLen(r.buf) = count
            /\ count > 0 => r.buf = RSlice(file[f].data.bytes, c, count)

\* C25: a read on a file handle with cursor c <= size copies exactly
\* min(n, size - c) bytes for every n of the 32-bit unsigned range, those
\* for which c + n wraps modulo 2^32 included; it returns that count,
\* advances the cursor by it and copies nothing from beyond the size.
ReadClamps ==
    \A fd \in UserHandles \cap Slots, n \in ProbeCounts : ReadClampsOn(fd, n)

\* The same for the counts that are small enough for c + n not to wrap, while
\* no attach or detach is between its open and its close.
ReadClampsSmallCounts ==
    (\A t \in Threads : ~InBridge(t)) =>
        \A fd \in UserHandles \cap Slots, n \in ProbeReadLens : ReadClampsOn(fd, n)

\* The thread is inside an operation: it holds rd_mutex, or it is between
\* the calls of an attach or a detach.
InProgress(t) == rd_mutex = t \/ pc[t] # "idle"

\* C26: no operation takes rd_mutex while it holds it and every operation
\* releases it at its return, attach and detach with their calls of open,
\* close and unlink included: under a fair scheduler every operation a
\* thread is in returns, which leaves the mutex free.
DeadlockFree ==
    \A t \in Threads : InProgress(t) ~> ~InProgress(t)

\* A detach has closed its handle and has its unlink to call while the
\* other thread holds the mutex.
DetachWaitsForMutex ==
    \E t, u \in Threads : pc[t] = "det_unlink" /\ rd_mutex = u /\ u # t

\* C27: an open that returns failure, whatever the reason, leaves the file
\* system as it was: no node is created, no node has its content, size,
\* open mode or use count changed, and no handle slot becomes occupied.
FailedOpenChangesNothing ==
    \A fn \in ProbePaths, mode \in ProbeModes, m \in MallocNode :
        LET o == ramdisk_open(st, fn, mode, m)
        IN  (Calling /\ o.rv = NULL) =>
                /\ o.file = file
                /\ \A fd \in Slots : o.fh[fd].file = fh[fd].file

\* The same for the opens issued while a handle slot is free.
FailedOpenWithSlotFree ==
    \A fn \in ProbePaths, mode \in ProbeModes, m \in MallocNode :
        LET o == ramdisk_open(st, fn, mode, m)
        IN  (Calling /\ o.rv = NULL /\ FindFreeHandle(fh) < FS_RAMDISK_MAX_FILES) =>
                /\ o.file = file
                /\ \A fd \in Slots : o.fh[fd].file = fh[fd].file

\* C28: a shutdown puts the module back in the uninitialised state: an init
\* after it makes a live root with no children and an empty handle table, a
\* second shutdown does nothing, and no handle slot refers to a node that
\* the shutdown has freed.
ShutdownResets ==
    LET d == fs_ramdisk_shutdown(statics)
        i == fs_ramdisk_init(d)
    IN  Mounted =>
            /\ d.rootdir = NULL
            /\ i.rootdir # NULL
            /\ i.file[ROOT] = RootNode
            /\ i.fh = [fd \in Slots |-> ZeroHandle]
            /\ ~ShutdownReadsFreed(d)
            /\ fs_ramdisk_shutdown(d) = d
            /\ \A fd \in Slots :
                   d.fh[fd].file # NULL => d.file[d.fh[fd].file].type # "free"

\* No handle slot refers to a freed node.
NoHandleOnFreedNode ==
    \A fd \in Slots : fh[fd].file # NULL => file[fh[fd].file].type # "free"

====
